---- MODULE Spec2Model ----
(***************************************************************************)
(* Model of the voice-triggered assistant of src/1.py: the audio callback  *)
(* (collect_audio), the transcription and detection loop                   *)
(* (transcribe_and_detect), the response threads (speak_response), the     *)
(* cool-down timers (reset_response_status) and the main thread.           *)
(*                                                                         *)
(* A frame is named by its position in capture order (1, 2, 3, ...); every *)
(* frame holds BLOCKSIZE samples, the blocksize the input stream is opened *)
(* with.  A transcript is a sequence of characters; each character of the  *)
(* trigger phrase is written as one string.                                *)
(***************************************************************************)
EXTENDS Integers, Sequences, FiniteSets

(* ----------------------------- configuration --------------------------- *)

SAMPLING_RATE == 16000

CHUNK_DURATION == 5

BLOCKSIZE == 1024

KEYWORD == <<"dao", "zhen", "zhu", "shou">>

(* ------------------------------- bounds -------------------------------- *)

\* frames the audio callback delivers in a run of the whole program
MaxFrames == 3

\* frames the audio callback delivers in a run of the chunk assembler
MaxFramesAsm == 81

\* frames waiting in the queue in a run of the chunk assembler
MaxQueue == 2

\* transcripts holding the trigger phrase that reach the detector while armed
MaxSpawn == 2

\* largest absolute value of a sample, in steps of the sample format
MaxAmp == 2

\* samples of a chunk that is normalised
MaxSamples == 3

(* ------------------------------ transcripts ---------------------------- *)

\* the characters str.strip() removes
Whitespace == {" ", "\t", "\n"}

\* text.strip(): the text without its leading and trailing whitespace
RECURSIVE LStrip(_)
LStrip(s) ==
    IF s # <<>> /\ Head(s) \in Whitespace THEN LStrip(Tail(s)) ELSE s

RECURSIVE RStrip(_)
RStrip(s) ==
    IF s # <<>> /\ s[Len(s)] \in Whitespace THEN RStrip(SubSeq(s, 1, Len(s) - 1)) ELSE s

Strip(s) == RStrip(LStrip(s))

\* a match that skips the whitespace of the text
RECURSIVE NoSpaces(_)
NoSpaces(s) ==
    IF s = <<>> THEN <<>>
    ELSE IF Head(s) \in Whitespace THEN NoSpaces(Tail(s))
    ELSE <<Head(s)>> \o NoSpaces(Tail(s))

ContainsIgnoringSpaces(s, kw) ==
    \E i \in 0..Len(NoSpaces(s)) :
        /\ i + Len(kw) <= Len(NoSpaces(s))
        /\ SubSeq(NoSpaces(s), i + 1, i + Len(kw)) = kw

\* KEYWORD in text: kw occurs in s as a contiguous run of characters
Contains(s, kw) ==
    \E i \in 0..Len(s) :
        /\ i + Len(kw) <= Len(s)
        /\ SubSeq(s, i + 1, i + Len(kw)) = kw

\* what model.transcribe may return
QuietTranscripts ==
    { <<>>,
      <<" ", "\n">>,
      <<"x">>,
      <<"dao", "zhen", " ", "zhu", "shou">> }

Transcripts ==
    QuietTranscripts \cup
    { KEYWORD,
      <<"x", " ">> \o KEYWORD \o <<" ", "x">> }

(* -------------------------------- state -------------------------------- *)

VARIABLES
    audio_queue,       \* queue.Queue(): frames put and not yet got
    pushed,            \* every frame put so far, in order (history)
    popped,            \* every frame got so far, in order (history)
    det_pc,            \* where transcribe_and_detect stands
    audio_chunks,      \* frames of the chunk being collected
    collected_frames,  \* samples in audio_chunks
    result_text,       \* result["text"] of the last transcription
    transcribed,       \* frames of every chunk given to model.transcribe (history)
    has_responded,     \* the global flag
    response_lock,     \* who holds threading.Lock()
    task_pc,           \* where each speak_response thread stands
    timer_pc,          \* where the threading.Timer each task started stands
    main_pc,           \* where the main thread stands
    interrupted,       \* KeyboardInterrupt was raised in the main thread
    norm_pc,           \* whether the normalisation of line 87 has run
    norm_audio,        \* np.concatenate(audio_chunks): the samples of a chunk
    norm_result,       \* the audio the normalisation yields
    norm_divided       \* the normalisation evaluated audio / np.max(np.abs(audio))

queueVars == <<audio_queue, pushed, popped>>
detVars == <<det_pc, audio_chunks, collected_frames, result_text, transcribed>>
respVars == <<has_responded, response_lock, task_pc, timer_pc>>
mainVars == <<main_pc, interrupted>>
normVars == <<norm_pc, norm_audio, norm_result, norm_divided>>
vars == <<queueVars, detVars, respVars, mainVars, normVars>>

Tasks == 1..MaxSpawn

Free == <<"free", 0>>
Detector == <<"detector", 0>>
Task(i) == <<"task", i>>
Timer(i) == <<"timer", i>>

\* target_frames = int(SAMPLING_RATE * CHUNK_DURATION)
target_frames == SAMPLING_RATE * CHUNK_DURATION

\* len(chunk): the stream delivers blocks of BLOCKSIZE samples
FrameLen(f) == BLOCKSIZE

\* daemon threads run until the interpreter has exited
Alive == main_pc # "exited"

Init ==
    /\ audio_queue = <<>>
    /\ pushed = <<>>
    /\ popped = <<>>
    /\ det_pc = "collect"
    /\ audio_chunks = <<>>
    /\ collected_frames = 0
    /\ result_text = <<>>
    /\ transcribed = <<>>
    /\ has_responded = FALSE
    /\ response_lock = Free
    /\ task_pc = [i \in Tasks |-> "idle"]
    /\ timer_pc = [i \in Tasks |-> "none"]
    /\ main_pc = "input"
    /\ interrupted = FALSE
    /\ norm_pc = "off"
    /\ norm_audio = <<>>
    /\ norm_result = <<>>
    /\ norm_divided = FALSE

(* --------------------------- audio callback ---------------------------- *)

\* a put on a queue that holds one frame: it waits while the queue is full
collect_audio_bounded(cap) ==
    /\ main_pc = "input"
    /\ Len(pushed) < cap
    /\ audio_queue = <<>>
    /\ audio_queue' = Append(audio_queue, Len(pushed) + 1)
    /\ pushed' = Append(pushed, Len(pushed) + 1)
    /\ UNCHANGED <<popped, detVars, respVars, mainVars, normVars>>

\* collect_audio: the stream's callback puts one frame; cap bounds the run
collect_audio(cap) ==
    /\ main_pc = "input"
    /\ Len(pushed) < cap
    /\ audio_queue' = Append(audio_queue, Len(pushed) + 1)
    /\ pushed' = Append(pushed, Len(pushed) + 1)
    /\ UNCHANGED <<popped, detVars, respVars, mainVars, normVars>>

(* ------------------------ transcribe_and_detect ------------------------ *)

\* top of the while True loop: a fresh, empty chunk; result is not read again
\* before model.transcribe assigns it, so its old text is forgotten here
LoopTop ==
    /\ det_pc' = "collect"
    /\ audio_chunks' = <<>>
    /\ collected_frames' = 0
    /\ result_text' = <<>>

\* a get that loses the frame it takes from the queue
get_frame_dropping ==
    /\ Alive
    /\ det_pc = "collect"
    /\ audio_queue # <<>>
    /\ audio_queue' = Tail(audio_queue)
    /\ popped' = Append(popped, Head(audio_queue))
    /\ UNCHANGED <<pushed, detVars, respVars, mainVars, normVars>>

\* a get whose loop test sees the total before the frame is added
get_frame_late_test ==
    /\ Alive
    /\ det_pc = "collect"
    /\ audio_queue # <<>>
    /\ audio_queue' = Tail(audio_queue)
    /\ popped' = Append(popped, Head(audio_queue))
    /\ audio_chunks' = Append(audio_chunks, Head(audio_queue))
    /\ collected_frames' = collected_frames + FrameLen(Head(audio_queue))
    /\ det_pc' = IF collected_frames < target_frames THEN "collect" ELSE "collected"
    /\ UNCHANGED <<pushed, result_text, transcribed, respVars, mainVars, normVars>>

\* audio_queue.get(timeout=1) returns a frame; the inner while tests the total
get_frame ==
    /\ Alive
    /\ det_pc = "collect"
    /\ audio_queue # <<>>
    /\ audio_queue' = Tail(audio_queue)
    /\ popped' = Append(popped, Head(audio_queue))
    /\ audio_chunks' = Append(audio_chunks, Head(audio_queue))
    /\ collected_frames' = collected_frames + FrameLen(Head(audio_queue))
    /\ det_pc' = IF collected_frames' < target_frames THEN "collect" ELSE "collected"
    /\ UNCHANGED <<pushed, result_text, transcribed, respVars, mainVars, normVars>>

\* audio_queue.get(timeout=1) raises queue.Empty: break
get_timeout ==
    /\ Alive
    /\ det_pc = "collect"
    /\ audio_queue = <<>>
    /\ det_pc' = "collected"
    /\ UNCHANGED <<queueVars, audio_chunks, collected_frames, result_text,
                   transcribed, respVars, mainVars, normVars>>

\* if audio_chunks: is false, back to the top of the loop
skip_empty ==
    /\ Alive
    /\ det_pc = "collected"
    /\ audio_chunks = <<>>
    /\ LoopTop
    /\ UNCHANGED <<queueVars, transcribed, respVars, mainVars, normVars>>

\* the transcription without its if audio_chunks: test
call_transcribe_always ==
    /\ Alive
    /\ det_pc = "collected"
    /\ transcribed' = transcribed \o audio_chunks
    /\ det_pc' = "transcribe"
    /\ UNCHANGED <<queueVars, audio_chunks, collected_frames, result_text,
                   respVars, mainVars, normVars>>

\* if audio_chunks: is true, the frames are concatenated and model.transcribe
\* is called with them
call_transcribe ==
    /\ Alive
    /\ det_pc = "collected"
    /\ audio_chunks # <<>>
    /\ transcribed' = transcribed \o audio_chunks
    /\ det_pc' = "transcribe"
    /\ UNCHANGED <<queueVars, audio_chunks, collected_frames, result_text,
                   respVars, mainVars, normVars>>

\* model.transcribe returns one of texts
transcribe(texts) ==
    /\ Alive
    /\ det_pc = "transcribe"
    /\ \E text \in texts : result_text' = text
    /\ det_pc' = "strip"
    /\ UNCHANGED <<queueVars, audio_chunks, collected_frames, transcribed,
                   respVars, mainVars, normVars>>

\* the test of the text without strip()
HasTextUnstripped == result_text # <<>>

\* if result["text"].strip():
HasText == Strip(result_text) # <<>>

\* a text that is blank after strip() sends the loop back to its top; any
\* other text is printed and goes to keyword detection
strip_test ==
    /\ Alive
    /\ det_pc = "strip"
    /\ IF HasText
       THEN /\ det_pc' = "acquire"
            /\ UNCHANGED <<audio_chunks, collected_frames, result_text>>
       ELSE LoopTop
    /\ UNCHANGED <<queueVars, transcribed, respVars, mainVars, normVars>>

\* the transcripts the engine returns in a run of the whole program: at most
\* MaxSpawn response threads are started
SpawnedTasks == {i \in Tasks : task_pc[i] # "idle"}

ProgramTranscripts ==
    IF Cardinality(SpawnedTasks) < MaxSpawn THEN Transcripts ELSE QuietTranscripts

\* with response_lock: the detector takes the lock
detect_acquire ==
    /\ Alive
    /\ det_pc = "acquire"
    /\ response_lock = Free
    /\ response_lock' = Detector
    /\ det_pc' = "check"
    /\ UNCHANGED <<queueVars, audio_chunks, collected_frames, result_text,
                   transcribed, has_responded, task_pc, timer_pc, mainVars, normVars>>

\* threading.Thread(target=speak_response, daemon=True).start()
NextTask == CHOOSE i \in Tasks : task_pc[i] = "idle" /\ \A j \in 1..(i - 1) : task_pc[j] # "idle"

StartTask == task_pc' = [task_pc EXCEPT ![NextTask] = "acquire"]

\* the test under the lock, the thread start, and the release of the lock
Triggered == Contains(result_text, KEYWORD) /\ ~has_responded

detect_check ==
    /\ Alive
    /\ det_pc = "check"
    /\ IF Triggered THEN StartTask ELSE UNCHANGED task_pc
    /\ response_lock' = Free
    /\ LoopTop
    /\ UNCHANGED <<queueVars, transcribed, has_responded, timer_pc, mainVars, normVars>>

(* ---------------------------- speak_response ---------------------------- *)

\* speak_response without mutual exclusion: the thread goes on whoever holds
\* the lock
speak_acquire_unlocked(i) ==
    /\ Alive
    /\ task_pc[i] = "acquire"
    /\ response_lock' = Task(i)
    /\ task_pc' = [task_pc EXCEPT ![i] = "check"]
    /\ UNCHANGED <<queueVars, detVars, has_responded, timer_pc, mainVars, normVars>>

\* with response_lock: a response thread takes the lock
speak_acquire(i) ==
    /\ Alive
    /\ task_pc[i] = "acquire"
    /\ response_lock = Free
    /\ response_lock' = Task(i)
    /\ task_pc' = [task_pc EXCEPT ![i] = "check"]
    /\ UNCHANGED <<queueVars, detVars, has_responded, timer_pc, mainVars, normVars>>

\* speak_response without its test of the flag
AlwaysSpeak == TRUE

\* if not has_responded:
NotYetResponded == ~has_responded

\* the test of the flag, returning with the lock still held when it is set
speak_check_keeps_lock(i) ==
    /\ Alive
    /\ task_pc[i] = "check"
    /\ IF NotYetResponded
       THEN task_pc' = [task_pc EXCEPT ![i] = "say"]
       ELSE task_pc' = [task_pc EXCEPT ![i] = "done"]
    /\ UNCHANGED <<queueVars, detVars, has_responded, response_lock, timer_pc, mainVars, normVars>>

\* the test of the flag; when it is set the thread leaves the with block
speak_check(i) ==
    /\ Alive
    /\ task_pc[i] = "check"
    /\ IF NotYetResponded
       THEN /\ task_pc' = [task_pc EXCEPT ![i] = "say"]
            /\ UNCHANGED response_lock
       ELSE /\ task_pc' = [task_pc EXCEPT ![i] = "done"]
            /\ response_lock' = Free
    /\ UNCHANGED <<queueVars, detVars, has_responded, timer_pc, mainVars, normVars>>

\* speak_response starting its timer before the utterance
engine_say_with_timer(i) ==
    /\ Alive
    /\ task_pc[i] = "say"
    /\ task_pc' = [task_pc EXCEPT ![i] = "runAndWait"]
    /\ timer_pc' = [timer_pc EXCEPT ![i] = "scheduled"]
    /\ UNCHANGED <<queueVars, detVars, has_responded, response_lock, mainVars, normVars>>

\* engine.say(RESPONSE_TEXT): the utterance is handed to the engine
engine_say(i) ==
    /\ Alive
    /\ task_pc[i] = "say"
    /\ task_pc' = [task_pc EXCEPT ![i] = "runAndWait"]
    /\ UNCHANGED <<queueVars, detVars, has_responded, response_lock, timer_pc, mainVars, normVars>>

\* engine.runAndWait() returns: the utterance has been played
engine_runAndWait(i) ==
    /\ Alive
    /\ task_pc[i] = "runAndWait"
    /\ task_pc' = [task_pc EXCEPT ![i] = "set"]
    /\ UNCHANGED <<queueVars, detVars, has_responded, response_lock, timer_pc, mainVars, normVars>>

\* has_responded = True
set_responded(i) ==
    /\ Alive
    /\ task_pc[i] = "set"
    /\ has_responded' = TRUE
    /\ task_pc' = [task_pc EXCEPT ![i] = "timer"]
    /\ UNCHANGED <<queueVars, detVars, response_lock, timer_pc, mainVars, normVars>>

\* speak_response returning without a timer started
start_timer_skipped(i) ==
    /\ Alive
    /\ task_pc[i] = "timer"
    /\ response_lock' = Free
    /\ task_pc' = [task_pc EXCEPT ![i] = "done"]
    /\ UNCHANGED <<queueVars, detVars, has_responded, timer_pc, mainVars, normVars>>

\* threading.Timer(30, reset_response_status).start(), then the with block ends
start_timer(i) ==
    /\ Alive
    /\ task_pc[i] = "timer"
    /\ timer_pc' = [timer_pc EXCEPT ![i] = "scheduled"]
    /\ response_lock' = Free
    /\ task_pc' = [task_pc EXCEPT ![i] = "done"]
    /\ UNCHANGED <<queueVars, detVars, has_responded, mainVars, normVars>>

(* ------------------------- reset_response_status ----------------------- *)

\* the 30 seconds have passed: the timer thread calls reset_response_status
timer_fire(i) ==
    /\ Alive
    /\ timer_pc[i] = "scheduled"
    /\ timer_pc' = [timer_pc EXCEPT ![i] = "acquire"]
    /\ UNCHANGED <<queueVars, detVars, has_responded, response_lock, task_pc, mainVars, normVars>>

\* reset_response_status without its with block
reset_without_lock(i) ==
    /\ Alive
    /\ timer_pc[i] = "acquire"
    /\ timer_pc' = [timer_pc EXCEPT ![i] = "reset"]
    /\ UNCHANGED <<queueVars, detVars, has_responded, response_lock, task_pc, mainVars, normVars>>

\* with response_lock: the timer thread takes the lock
reset_acquire(i) ==
    /\ Alive
    /\ timer_pc[i] = "acquire"
    /\ response_lock = Free
    /\ response_lock' = Timer(i)
    /\ timer_pc' = [timer_pc EXCEPT ![i] = "reset"]
    /\ UNCHANGED <<queueVars, detVars, has_responded, task_pc, mainVars, normVars>>

\* reset_response_status leaving the flag as it is
reset_keeps_flag(i) ==
    /\ Alive
    /\ timer_pc[i] = "reset"
    /\ response_lock' = Free
    /\ timer_pc' = [timer_pc EXCEPT ![i] = "done"]
    /\ UNCHANGED <<queueVars, detVars, has_responded, task_pc, mainVars, normVars>>

\* has_responded = False, and the with block ends
reset_response_status(i) ==
    /\ Alive
    /\ timer_pc[i] = "reset"
    /\ has_responded' = FALSE
    /\ response_lock' = Free
    /\ timer_pc' = [timer_pc EXCEPT ![i] = "done"]
    /\ UNCHANGED <<queueVars, detVars, task_pc, mainVars, normVars>>

(* ------------------------------ main thread ---------------------------- *)

\* input() is interrupted: the except clause prints and the with block closes
\* the stream
keyboard_interrupt ==
    /\ main_pc = "input"
    /\ main_pc' = "closed"
    /\ interrupted' = TRUE
    /\ UNCHANGED <<queueVars, detVars, respVars, normVars>>

\* input() returns a line: the with block closes the stream
input_line ==
    /\ main_pc = "input"
    /\ main_pc' = "closed"
    /\ UNCHANGED <<interrupted, queueVars, detVars, respVars, normVars>>

\* threading.Thread(target=transcribe_and_detect, daemon=True)
DetectorDaemon == TRUE

\* a response thread started without daemon=True
TaskNotDaemon == FALSE

\* threading.Thread(target=speak_response, daemon=True)
TaskDaemon == TRUE

\* a timer thread that is not a daemon
TimerNotDaemon == FALSE

\* threading.Timer(30, ...) sets no daemon flag: the timer thread takes that
\* of the thread that creates it, a speak_response thread
TimerDaemon == TaskDaemon

\* a thread the interpreter waits for when the main thread has ended
NonDaemonRunning ==
    \/ ~DetectorDaemon
    \/ ~TaskDaemon /\ \E i \in Tasks : task_pc[i] \notin {"idle", "done"}
    \/ ~TimerDaemon /\ \E i \in Tasks : timer_pc[i] \notin {"none", "done"}

\* the main thread ends; the interpreter waits for the threads that are not
\* daemons, then the process exits and the daemon threads with it
process_exit ==
    /\ main_pc = "closed"
    /\ ~NonDaemonRunning
    /\ main_pc' = "exited"
    /\ UNCHANGED <<interrupted, queueVars, detVars, respVars, normVars>>

(* ----------------------------- normalisation ---------------------------- *)

\* a sample is a whole number of steps; a quotient is written <<n, d>> in
\* lowest terms with d > 0, a sample left as it is <<n, 1>>, and the outcome
\* of a division by zero <<0, 0>>
Samples == (0 - MaxAmp)..MaxAmp

Abs(x) == IF x < 0 THEN 0 - x ELSE x

RECURSIVE GCD(_, _)
GCD(a, b) == IF b = 0 THEN a ELSE GCD(b, a % b)

\* x / p for p >= 0
Quotient(x, p) ==
    IF p = 0 THEN <<0, 0>>
    ELSE <<(IF x < 0 THEN 0 - (Abs(x) \div GCD(Abs(x), p)) ELSE x \div GCD(x, p)),
           p \div GCD(Abs(x), p)>>

\* np.max(np.abs(audio))
RECURSIVE Peak(_)
Peak(audio) ==
    IF Len(audio) = 1 THEN Abs(audio[1])
    ELSE IF Abs(Head(audio)) >= Peak(Tail(audio)) THEN Abs(Head(audio)) ELSE Peak(Tail(audio))

\* audio / np.max(np.abs(audio))
Divided(audio) == [i \in 1..Len(audio) |-> Quotient(audio[i], Peak(audio))]

\* audio, as it is
Same(audio) == [i \in 1..Len(audio) |-> <<audio[i], 1>>]

\* a test that lets a peak of zero through
PeakNotNegative(audio) == Peak(audio) >= 0

\* ... if np.max(np.abs(audio)) > 0 else ...
PeakPositive(audio) == Peak(audio) > 0

\* audio = audio / np.max(np.abs(audio)) if np.max(np.abs(audio)) > 0 else audio
normalize ==
    /\ norm_pc = "audio"
    /\ norm_pc' = "done"
    /\ IF PeakPositive(norm_audio)
       THEN norm_result' = Divided(norm_audio) /\ norm_divided' = TRUE
       ELSE norm_result' = Same(norm_audio) /\ norm_divided' = FALSE
    /\ UNCHANGED <<norm_audio, queueVars, detVars, respVars, mainVars>>

\* the sequences of 1 to n samples
RECURSIVE Audio(_)
Audio(n) ==
    IF n = 0 THEN {}
    ELSE [1..n -> Samples] \cup Audio(n - 1)

\* a chunk of samples about to be normalised
InitNorm ==
    /\ audio_queue = <<>>
    /\ pushed = <<>>
    /\ popped = <<>>
    /\ det_pc = "collected"
    /\ audio_chunks = <<>>
    /\ collected_frames = 0
    /\ result_text = <<>>
    /\ transcribed = <<>>
    /\ has_responded = FALSE
    /\ response_lock = Free
    /\ task_pc = [i \in Tasks |-> "idle"]
    /\ timer_pc = [i \in Tasks |-> "none"]
    /\ main_pc = "input"
    /\ interrupted = FALSE
    /\ norm_pc = "audio"
    /\ norm_audio \in Audio(MaxSamples)
    /\ norm_result = <<>>
    /\ norm_divided = FALSE

NextNorm == normalize

SpecNorm == InitNorm /\ [][NextNorm]_vars

(* ---------------------------- specifications --------------------------- *)

ResponseStep(i) ==
    \/ speak_acquire(i)
    \/ speak_check(i)
    \/ engine_say(i)
    \/ engine_runAndWait(i)
    \/ set_responded(i)
    \/ start_timer(i)

TimerStep(i) ==
    \/ timer_fire(i)
    \/ reset_acquire(i)
    \/ reset_response_status(i)

\* the whole program
Next ==
    \/ collect_audio(MaxFrames)
    \/ get_frame
    \/ get_timeout
    \/ skip_empty
    \/ call_transcribe
    \/ transcribe(ProgramTranscripts)
    \/ strip_test
    \/ detect_acquire
    \/ detect_check
    \/ \E i \in Tasks : ResponseStep(i)
    \/ \E i \in Tasks : TimerStep(i)
    \/ keyboard_interrupt
    \/ input_line
    \/ process_exit

Spec == Init /\ [][Next]_vars

\* the program while no interrupt and no line of input reaches the main thread
NextRunning ==
    \/ collect_audio(MaxFrames)
    \/ get_frame
    \/ get_timeout
    \/ skip_empty
    \/ call_transcribe
    \/ transcribe(ProgramTranscripts)
    \/ strip_test
    \/ detect_acquire
    \/ detect_check
    \/ \E i \in Tasks : ResponseStep(i)
    \/ \E i \in Tasks : TimerStep(i)

\* every thread that can take a step takes one, the engines return, a timer
\* fires, and a thread that waits for the lock gets it when it is free again
\* and again
Fairness ==
    /\ WF_vars(get_frame)
    /\ WF_vars(get_timeout)
    /\ WF_vars(skip_empty)
    /\ WF_vars(call_transcribe)
    /\ WF_vars(transcribe(ProgramTranscripts))
    /\ WF_vars(strip_test)
    /\ SF_vars(detect_acquire)
    /\ WF_vars(detect_check)
    /\ \A i \in Tasks :
        /\ SF_vars(speak_acquire(i))
        /\ WF_vars(speak_check(i))
        /\ WF_vars(engine_say(i))
        /\ WF_vars(engine_runAndWait(i))
        /\ WF_vars(set_responded(i))
        /\ WF_vars(start_timer(i))
        /\ WF_vars(timer_fire(i))
        /\ SF_vars(reset_acquire(i))
        /\ WF_vars(reset_response_status(i))

FairSpec == Init /\ [][NextRunning]_vars /\ Fairness

\* the capture callback and the chunk assembler over a long capture, with
\* transcripts that do not hold the trigger phrase
NextAsm ==
    \/ (Len(audio_queue) < MaxQueue /\ collect_audio(MaxFramesAsm))
    \/ get_frame
    \/ get_timeout
    \/ skip_empty
    \/ call_transcribe
    \/ transcribe(QuietTranscripts)
    \/ strip_test
    \/ detect_acquire
    \/ detect_check

SpecAsm == Init /\ [][NextAsm]_vars

(* ------------------------------ measures ------------------------------- *)

\* response threads that have handed their utterance to the engine
Utterances ==
    {i \in Tasks : task_pc[i] \in {"runAndWait", "set", "timer"} \/ timer_pc[i] # "none"}

\* response threads whose utterance is being played
Playing == {i \in Tasks : task_pc[i] = "runAndWait"}

\* timers whose reset_response_status has cleared the flag
Resets == {i \in Tasks : timer_pc[i] = "done"}

\* timers started whose reset_response_status has not yet cleared the flag
Outstanding == {i \in Tasks : timer_pc[i] \in {"scheduled", "acquire", "reset"}}

(* -------------------------------- claims ------------------------------- *)

\* C1 (as stated): until the first cool-down reset has run, the detector has
\* started at most one response thread, however many transcripts holding the
\* trigger phrase it has processed.
C1_OneTaskPerWindow ==
    Resets = {} => Cardinality(SpawnedTasks) <= 1

\* C2 (as stated): when the detector finds the trigger phrase with the flag
\* clear, the flag is set by the time the detector releases the lock.
C2_SetBeforeRelease ==
    [][(det_pc = "check" /\ Triggered /\ det_pc' = "collect") => has_responded']_vars

C4_DetectorNotBlocked ==
    (Alive /\ det_pc = "acquire" /\ Playing # {}) => ENABLED detect_acquire

\* C5: under fairness a set flag is cleared again (the timer fires and
\* reset_response_status runs under the lock), and once a reset has run, a
\* transcript holding the trigger phrase that the detector checks while the
\* flag is clear starts a new response thread.
C5_ResetAndRearm ==
    /\ has_responded ~> ~has_responded
    /\ [][(/\ det_pc = "check"
           /\ det_pc' = "collect"
           /\ Contains(result_text, KEYWORD)
           /\ ~has_responded
           /\ Resets # {})
          => Cardinality(SpawnedTasks') = Cardinality(SpawnedTasks) + 1]_vars

C5_Witness ==
    /\ Resets # {}
    /\ ~has_responded
    /\ det_pc = "check"
    /\ Contains(result_text, KEYWORD)
    /\ SpawnedTasks = {1}

\* C6: at most one response thread is between engine.say and the return of
\* engine.runAndWait.
C6_OneUtteranceAtATime ==
    Cardinality(Playing) <= 1

C6_Witness ==
    \E i, j \in Tasks : task_pc[i] = "runAndWait" /\ task_pc[j] = "acquire"

\* C7: no utterance begins while the flag is set, and the utterances begun
\* never number more than the resets run plus one.
C7_OncePerActivation ==
    /\ [](Cardinality(Utterances) <= Cardinality(Resets) + 1)
    /\ [][\A i \in Tasks :
            (task_pc[i] = "say" /\ task_pc'[i] = "runAndWait") => ~has_responded]_vars

C7_Witness ==
    Cardinality(Utterances) = 2 /\ Cardinality(Resets) = 1

\* C8: a thread that is about to read or write has_responded (the detector's
\* test, a response thread's test and its assignment, the timer's assignment)
\* holds response_lock.
C8_FlagUnderLock ==
    /\ ENABLED detect_check => response_lock = Detector
    /\ \A i \in Tasks :
        /\ ENABLED speak_check(i) => response_lock = Task(i)
        /\ ENABLED set_responded(i) => response_lock = Task(i)
        /\ ENABLED reset_response_status(i) => response_lock = Timer(i)

C8_Witness ==
    \E i, j \in Tasks :
        /\ timer_pc[i] = "reset"
        /\ task_pc[j] = "acquire"
        /\ det_pc = "acquire"

\* the frames of the chunks given to transcription so far, followed by the
\* frames of the chunk being collected
Assembled ==
    IF det_pc \in {"collect", "collected"} THEN transcribed \o audio_chunks ELSE transcribed

IsPrefix(a, b) == Len(a) <= Len(b) /\ SubSeq(b, 1, Len(a)) = a

\* C9: the frames got so far are a prefix of the frames put, in put order; the
\* rest of the frames put are in the queue, in order; and the chunks given to
\* transcription followed by the frames being collected are that prefix.
C9_NoFrameLost ==
    /\ IsPrefix(popped, pushed)
    /\ popped \o audio_queue = pushed
    /\ Assembled = popped
    /\ \A i \in 1..Len(pushed) : pushed[i] = i

C9_Witness ==
    /\ Len(transcribed) * BLOCKSIZE >= target_frames
    /\ det_pc = "collect"
    /\ audio_chunks # <<>>
    /\ audio_queue # <<>>

\* C10: the collection loop ends when the samples collected reach
\* target_frames or when a get times out; a chunk is given to transcription
\* exactly when the loop has ended with at least one frame, and it holds all
\* the frames collected; a loop that ended with no frame starts again without
\* a transcription; model.transcribe never gets an empty chunk.
C10_ChunkHandedWhenCollected ==
    /\ [](det_pc = "transcribe" => audio_chunks # <<>>)
    /\ [](collected_frames = Len(audio_chunks) * BLOCKSIZE)
    /\ [](det_pc = "collect" => collected_frames < target_frames)
    /\ [][(det_pc = "collect" /\ det_pc' # "collect") =>
            /\ det_pc' = "collected"
            /\ \/ collected_frames' >= target_frames
               \/ audio_queue = <<>> /\ audio_chunks' = audio_chunks]_vars
    /\ [][(det_pc = "collected" /\ det_pc' # "collected") =>
            IF audio_chunks # <<>>
            THEN det_pc' = "transcribe" /\ transcribed' = transcribed \o audio_chunks
            ELSE det_pc' = "collect" /\ audio_chunks' = <<>> /\ collected_frames' = 0
                 /\ transcribed' = transcribed]_vars
    /\ [][transcribed' # transcribed => (det_pc = "collected" /\ det_pc' = "transcribe")]_vars

C10_Witness ==
    /\ det_pc = "transcribe"
    /\ collected_frames >= target_frames
    /\ Len(transcribed) > Len(audio_chunks)

\* the trigger phrase stands in s at position i, character by character
PhraseAt(s, i) ==
    \A k \in 1..Len(KEYWORD) : i + k - 1 <= Len(s) /\ s[i + k - 1] = KEYWORD[k]

HoldsPhrase(s) == \E i \in 1..Len(s) : PhraseAt(s, i)

\* C11: the detector's check starts a response thread exactly when the
\* transcript holds the trigger phrase as a contiguous run of characters and
\* has_responded is false; otherwise it starts none; the check never changes
\* the flag or the timers; and a response thread is started by nothing else.
C11_TriggerIffPhraseAndArmed ==
    /\ [][(det_pc = "check" /\ det_pc' # "check") =>
            /\ IF HoldsPhrase(result_text) /\ ~has_responded
               THEN /\ Cardinality(SpawnedTasks') = Cardinality(SpawnedTasks) + 1
                    /\ \E i \in Tasks :
                        /\ task_pc[i] = "idle"
                        /\ task_pc' = [task_pc EXCEPT ![i] = "acquire"]
               ELSE task_pc' = task_pc
            /\ has_responded' = has_responded
            /\ timer_pc' = timer_pc]_vars
    /\ [][\A i \in Tasks :
            (task_pc[i] = "idle" /\ task_pc'[i] # "idle") =>
                (det_pc = "check" /\ HoldsPhrase(result_text) /\ ~has_responded)]_vars

C11_Witness ==
    /\ det_pc = "check"
    /\ HoldsPhrase(result_text)
    /\ Len(result_text) > Len(KEYWORD)
    /\ has_responded

IsBlank(s) == \A i \in 1..Len(s) : s[i] \in Whitespace

\* C12: a transcript that is empty or all whitespace never reaches keyword
\* detection: the detector takes the lock and checks only a text with a
\* character that is not whitespace, and the step that handles a blank text
\* goes back to collecting and leaves the flag, the lock, the response threads
\* and the timers as they are.
C12_BlankNeverDetected ==
    /\ [](det_pc \in {"acquire", "check"} => ~IsBlank(result_text))
    /\ [][(det_pc = "strip" /\ IsBlank(result_text) /\ det_pc' # "strip") =>
            (det_pc' = "collect" /\ respVars' = respVars)]_vars
    /\ [][(response_lock # Detector /\ response_lock' = Detector) =>
            ~IsBlank(result_text)]_vars

C12_Witness ==
    /\ det_pc = "strip"
    /\ result_text # <<>>
    /\ IsBlank(result_text)
    /\ has_responded

\* C13: while the stream is open the callback can always put its frame,
\* whatever the queue holds, wherever the detection loop stands and whoever
\* holds the lock; the put appends the frame to the queue and touches nothing
\* of the detector, the lock or the response threads.
C13_PutNeverBlocks ==
    /\ []((main_pc = "input" /\ Len(pushed) < MaxFrames) => ENABLED collect_audio(MaxFrames))
    /\ [][pushed' # pushed =>
            /\ audio_queue' = Append(audio_queue, pushed'[Len(pushed')])
            /\ detVars' = detVars
            /\ respVars' = respVars]_vars

C13_Witness ==
    /\ main_pc = "input"
    /\ Len(pushed) < MaxFrames
    /\ Playing # {}
    /\ det_pc = "acquire"

\* C14: once the interrupt has reached the main thread the process can exit,
\* whatever the response threads and the detection loop are doing.
C14_ExitAfterInterrupt ==
    (main_pc = "closed" /\ interrupted) => ENABLED process_exit

C14_Witness ==
    /\ main_pc = "exited"
    /\ interrupted
    /\ Playing # {}
    /\ \E j \in Tasks : task_pc[j] = "acquire"
    /\ det_pc = "transcribe"

\* C15 (as stated): the capture stream is closed and the process ends only
\* when an interrupt has been delivered to the main thread.
C15_StopsOnlyOnInterrupt ==
    main_pc # "input" => interrupted

Silent(audio) == \A i \in 1..Len(audio) : audio[i] = 0

\* C16: the normalisation of a chunk whose samples are all zero divides
\* nothing and yields the samples as they are; it divides only a chunk with a
\* sample that is not zero, so no quotient has a zero divisor.
C16_SilentChunkUnchanged ==
    norm_pc = "done" =>
        /\ Silent(norm_audio) =>
            (~norm_divided /\ norm_result = [i \in 1..Len(norm_audio) |-> <<0, 1>>])
        /\ norm_divided => \E i \in 1..Len(norm_audio) : norm_audio[i] # 0
        /\ \A i \in 1..Len(norm_result) : norm_result[i][2] > 0

C16_Witness ==
    /\ norm_pc = "done"
    /\ Len(norm_audio) >= 2
    /\ Silent(norm_audio)
    /\ ~norm_divided

\* the samples of a sequence of frames of BLOCKSIZE samples
SamplesOf(frames) == Len(frames) * BLOCKSIZE

\* C17: a chunk given to transcription has fewer than target_frames samples
\* in its frames before the last, hence fewer than target_frames + BLOCKSIZE
\* in all; a collection that ended on a frame got, not on a timeout, has at
\* least target_frames samples.
C17_NoOvershoot ==
    /\ []((det_pc \in {"transcribe", "strip", "acquire", "check"}) =>
            /\ audio_chunks # <<>>
            /\ SamplesOf(audio_chunks) - BLOCKSIZE < SAMPLING_RATE * CHUNK_DURATION
            /\ SamplesOf(audio_chunks) < SAMPLING_RATE * CHUNK_DURATION + BLOCKSIZE)
    /\ [][(det_pc = "collect" /\ det_pc' = "collected" /\ audio_queue # <<>>) =>
            /\ SamplesOf(audio_chunks') >= SAMPLING_RATE * CHUNK_DURATION
            /\ SamplesOf(audio_chunks) < SAMPLING_RATE * CHUNK_DURATION]_vars

C17_Witness ==
    /\ det_pc = "strip"
    /\ SamplesOf(audio_chunks) >= SAMPLING_RATE * CHUNK_DURATION
    /\ SamplesOf(audio_chunks) - BLOCKSIZE < SAMPLING_RATE * CHUNK_DURATION

\* C18: at most one timer is outstanding; whenever response_lock is free,
\* has_responded is true exactly when one timer is outstanding; and the flag
\* is cleared only by the one outstanding timer, which is then finished.
C18_FlagHasItsTimer ==
    /\ [](Cardinality(Outstanding) <= 1)
    /\ [](response_lock = Free => (has_responded <=> Cardinality(Outstanding) = 1))
    /\ [][(has_responded /\ ~has_responded') =>
            \E i \in Tasks : Outstanding = {i} /\ Outstanding' = {}]_vars

C18_Witness ==
    \E i, j \in Tasks :
        /\ response_lock = Free
        /\ has_responded
        /\ timer_pc[i] = "done"
        /\ timer_pc[j] = "acquire"

\* C19: under fair scheduling every response thread started reaches its
\* return; it returns either from its test with has_responded true or after
\* its one utterance, releasing the lock as it does; a thread that has
\* returned does not hold the lock; and whenever the lock is held its holder
\* can take its next step, so the waiting threads are never stuck.
C19_TasksTerminate ==
    /\ \A i \in Tasks : (task_pc[i] = "acquire") ~> (task_pc[i] = "done")
    /\ [](\A i \in Tasks :
            /\ task_pc[i] \in {"idle", "acquire", "done"} => response_lock # Task(i)
            /\ response_lock = Task(i) => ENABLED ResponseStep(i)
            /\ response_lock = Timer(i) => ENABLED TimerStep(i))
    /\ [](response_lock = Detector => ENABLED detect_check)
    /\ [](response_lock = Free =>
            /\ det_pc = "acquire" => ENABLED detect_acquire
            /\ \A i \in Tasks :
                /\ task_pc[i] = "acquire" => ENABLED speak_acquire(i)
                /\ timer_pc[i] = "acquire" => ENABLED reset_acquire(i))
    /\ [][\A i \in Tasks :
            (task_pc[i] # "done" /\ task_pc'[i] = "done") =>
                /\ response_lock = Task(i)
                /\ response_lock' = Free
                /\ \/ task_pc[i] = "check" /\ has_responded
                   \/ task_pc[i] = "timer" /\ has_responded]_vars

C19_Witness ==
    \E i, j \in Tasks :
        /\ det_pc = "acquire"
        /\ task_pc[i] = "acquire"
        /\ timer_pc[j] = "acquire"
        /\ response_lock = Free

\* C20: once the interrupt has been received and the capture block left, the
\* process can exit at once although a cool-down timer started by
\* speak_response has not fired yet.
C20_TimerDoesNotHoldExit ==
    (main_pc = "closed" /\ interrupted /\ \E i \in Tasks : timer_pc[i] = "scheduled")
        => ENABLED process_exit

C20_Witness ==
    /\ main_pc = "exited"
    /\ interrupted
    /\ \E i \in Tasks : timer_pc[i] = "scheduled"

====
